---- MODULE Spec2Model ----
(***************************************************************************)
(* Model of the orchestration scripts of the repository:                   *)
(*   - run_backend_tests.py     (the Test Runner, specification Spec)      *)
(*   - verify_backend_tests.py  (the Verification Sequence, VerifySpec)    *)
(* External collaborators (child processes, the file system, sqlite, the   *)
(* user's Ctrl-C) are nondeterministic inputs drawn from small sets.       *)
(***************************************************************************)
EXTENDS Integers, Sequences, FiniteSets

(***************************************************************************)
(* Bounds of the model.                                                    *)
(***************************************************************************)
\* largest number of category flags given on one command line
MaxFlags == 2
\* largest child exit code enumerated (0 .. MaxExitCode)
MaxExitCode == 2
\* largest number of report files left over from earlier runs
MaxStale == 2

(***************************************************************************)
(* Test Runner: run_backend_tests.py                                       *)
(***************************************************************************)
VARIABLES
    pc,            \* position of main(): parse_args, construct, dispatch, after_run, summary_done, exited
    argv,          \* the category flags given on the command line
    runner,        \* "none" until BackendTestRunner() was constructed
    reports_dir,   \* TRUE when the reports directory exists
    files,         \* report files that exist under the reports directory
    runs,          \* subprocess invocations so far: [cmd, kind, code]
    printed,       \* timing lines printed by run_command
    success,       \* main's local `success`: "unbound", "True", "False"
    raised,        \* exception propagating in main's try block
    summary_calls, \* number of generate_summary calls
    summary,       \* the report lines of the last summary: <<filename, present>>
    coverage_line, \* the coverage path the last summary printed, or "none"
    traceback,     \* TRUE when an unhandled exception reached the top level
    exit_code      \* process exit status, -1 while running

runner_vars == <<pc, argv, runner, reports_dir, files, runs, printed, success,
                 raised, summary_calls, summary, coverage_line, traceback, exit_code>>

\* state of the Verification Sequence (verify_backend_tests.py)
VARIABLES
    version,          \* sys.version_info as <<major, minor>>
    installed,        \* the module names importlib finds
    broken,           \* found modules whose import raises an error other than ImportError
    script_files,     \* test files that exist under the script's directory
    cwd,              \* "script_dir" when the process runs in the script's directory
    bad_syntax,       \* test files whose content does not compile
    unreadable,       \* test files whose content cannot be decoded when read
    vpc,              \* position: import, checks, summary, exited
    step,             \* index of the next check of main's list
    outcomes,         \* "passed" / "failed" of the checks done, in order
    executed,         \* names of the checks main has called, in call order
    unexpected,       \* names of the checks whose exception main caught
    passed_checks,    \* main's counter
    probed,           \* packages check_required_packages tried to import
    missing_packages, \* packages it recorded as missing
    db_file,          \* TRUE when a smoke-test database file exists
    db_row,           \* the row fetchone returned, <<>> for None
    db_error,         \* the statement of the smoke test that raised, or "none"
    not_found,        \* files run_syntax_check reported as 'File not found'
    checks_run,       \* subprocess invocations of the checks: [cmd, kind, code]
    v_success,        \* the value main returned: "unbound", "True", "False"
    v_traceback,      \* the exception that reached the top level, or "none"
    v_exit            \* process exit status, -1 while running

verify_vars == <<version, installed, broken, script_files, cwd, bad_syntax, unreadable,
                 vpc, step, outcomes, executed, unexpected, passed_checks,
                 probed, missing_packages, db_file, db_row, db_error,
                 not_found, checks_run, v_success, v_traceback, v_exit>>

\* two runs of the Verification Sequence in two environments are compared:
\* what is kept of the first run while the second one executes
VARIABLE ref

pair_vars == <<ref>>

\* state of the services the test modules define and of the load-test user
VARIABLES
    n_ops,       \* number of operations called so far
    last,        \* the last call: [svc, op, arg, ret, exc, requests, status]
    cache,       \* UserService.cache: user id -> cached user data
    api_calls,   \* HTTP requests UserService has made: [method, arg]
    users,       \* rows of the users table of test_database_simple.DatabaseService
    reg_users,   \* rows of the users table of test_integration_simple.DatabaseService
    sent,        \* welcome emails sent by NotificationService: [email, name]
    cart_items,  \* WebsiteLoadTest.cart_items
    last_task    \* the last task of the load-test user: [task, requests]

user_service_vars == <<cache, api_calls>>

database_vars == <<users>>

registration_vars == <<reg_users, sent>>

locust_vars == <<cart_items, last_task>>

service_vars == <<n_ops, last, user_service_vars, database_vars, registration_vars,
                  locust_vars>>

vars == <<runner_vars, verify_vars, pair_vars, service_vars>>

\* the six flags of the mutually exclusive group, in declaration order
Flags == <<"api", "database", "unit", "integration", "security", "all">>

FlagSet == {Flags[i] : i \in 1..Len(Flags)}

\* the ordered report list of generate_summary
reports == <<"api-tests.html", "database-tests.html", "unit-tests.html",
             "integration-tests.html", "all-backend-tests.html">>

\* the coverage index generate_summary looks for
coverage_path == "full-coverage/index.html"

\* every file the model tracks under reports/
ReportFiles == {reports[i] : i \in 1..Len(reports)}
                 \cup {"coverage/index.html", "full-coverage/index.html"}

\* the files each command line tells its child to write under reports/
ReportTargets(cmd) ==
    CASE cmd = "api"         -> {"api-tests.html"}
      [] cmd = "database"    -> {"database-tests.html"}
      [] cmd = "unit"        -> {"unit-tests.html", "coverage/index.html"}
      [] cmd = "integration" -> {"integration-tests.html"}
      [] cmd = "all"         -> {"all-backend-tests.html", "full-coverage/index.html"}
      [] OTHER               -> {}

\* what one subprocess.run(command, check=True) can do: the child runs and
\* exits with a code, the executable cannot be started, or Ctrl-C arrives
\* while the parent waits for the child
Outcomes(cmd) ==
    [kind : {"exit"}, code : 0..MaxExitCode, wrote : SUBSET ReportTargets(cmd)]
      \cup [kind : {"launchfail"}, code : {-1}, wrote : {{}}]
      \cup [kind : {"interrupt"}, code : {-1}, wrote : SUBSET ReportTargets(cmd)]

\* run_command with `except Exception` in place of `except CalledProcessError`:
\* a launch failure is reported like a failed child
run_command_catch_all(cmd, o) ==
    IF o.kind = "exit" /\ o.code = 0
      THEN [ret |-> "True", exc |-> "none", line |-> <<"Completed">>]
    ELSE IF o.kind \in {"exit", "launchfail"}
      THEN [ret |-> "False", exc |-> "none", line |-> <<"Failed">>]
    ELSE [ret |-> "unbound", exc |-> "KeyboardInterrupt", line |-> <<>>]

\* run_command: the value returned, or the exception that leaves it
run_command(cmd, o) ==
    IF o.kind = "exit" /\ o.code = 0
      THEN [ret |-> "True", exc |-> "none", line |-> <<"Completed">>]
    ELSE IF o.kind = "exit"
      THEN [ret |-> "False", exc |-> "none", line |-> <<"Failed">>]
    ELSE IF o.kind = "launchfail"
      THEN [ret |-> "unbound", exc |-> "FileNotFoundError", line |-> <<>>]
    ELSE [ret |-> "unbound", exc |-> "KeyboardInterrupt", line |-> <<>>]

Run(cmd, o) == [cmd |-> cmd, kind |-> o.kind, code |-> o.code, wrote |-> o.wrote]

\* a required group that is not mutually exclusive
group_accepts_any(flags) == Cardinality(flags) >= 1

\* argparse's mutually exclusive, required group
group_accepts(flags) == Cardinality(flags) = 1

\* the branch of main's if/elif chain that is taken
RECURSIVE first_flag(_, _)
first_flag(flags, i) ==
    IF i > Len(Flags) THEN "none"
    ELSE IF Flags[i] \in flags THEN Flags[i]
    ELSE first_flag(flags, i + 1)

selected == first_flag(argv, 1)

RunnerInit ==
    /\ pc = "parse_args"
    /\ argv = {}
    /\ runner = "none"
    /\ files \in {s \in SUBSET ReportFiles : Cardinality(s) <= MaxStale}
    /\ reports_dir \in {r \in BOOLEAN : files # {} => r}
    /\ runs = <<>>
    /\ printed = <<>>
    /\ success = "unbound"
    /\ raised = "none"
    /\ summary_calls = 0
    /\ summary = <<>>
    /\ coverage_line = "none"
    /\ traceback = FALSE
    /\ exit_code = -1

\* parser.parse_args(): a rejected command line ends the process with status 2
ParseArgs ==
    /\ pc = "parse_args"
    /\ \E flags \in {s \in SUBSET FlagSet : Cardinality(s) <= MaxFlags} :
         /\ argv' = flags
         /\ IF group_accepts(flags)
              THEN pc' = "construct" /\ exit_code' = exit_code
              ELSE pc' = "exited" /\ exit_code' = 2
    /\ UNCHANGED <<runner, reports_dir, files, runs, printed, success, raised,
                   summary_calls, summary, coverage_line, traceback>>
    /\ UNCHANGED <<verify_vars, pair_vars, service_vars>>

\* an exception that nothing handles: the interpreter prints the traceback
\* and ends the process with status 1
unhandled_status == 1

\* BackendTestRunner.__init__: reports_dir.mkdir(exist_ok=True) creates the
\* directory, or raises OSError (no permission, a file of that name) when it
\* does not exist yet; the constructor runs outside main's try statement
Construct ==
    /\ pc = "construct"
    /\ \E mkdir_ok \in {b \in BOOLEAN : reports_dir => b} :
         IF mkdir_ok
           THEN /\ runner' = "constructed"
                /\ reports_dir' = TRUE
                /\ pc' = "dispatch"
                /\ UNCHANGED <<traceback, exit_code>>
           ELSE /\ traceback' = TRUE
                /\ exit_code' = unhandled_status
                /\ pc' = "exited"
                /\ UNCHANGED <<runner, reports_dir>>
    /\ UNCHANGED <<argv, files, runs, printed, success, raised, summary_calls,
                   summary, coverage_line>>
    /\ UNCHANGED <<verify_vars, pair_vars, service_vars>>

\* a run method that delegates one command to run_command
RunSingle(cmd) ==
    /\ pc = "dispatch"
    /\ \E o \in Outcomes(cmd) :
         LET r == run_command(cmd, o) IN
           /\ runs' = Append(runs, Run(cmd, o))
           /\ files' = files \cup o.wrote
           /\ printed' = printed \o r.line
           /\ success' = r.ret
           /\ raised' = r.exc
    /\ pc' = "after_run"
    /\ UNCHANGED <<argv, runner, reports_dir, summary_calls, summary,
                   coverage_line, traceback, exit_code>>
    /\ UNCHANGED <<verify_vars, pair_vars, service_vars>>

run_api_tests ==
    /\ selected = "api"
    /\ RunSingle("api")

run_database_tests ==
    /\ selected = "database"
    /\ RunSingle("database")

run_unit_tests ==
    /\ selected = "unit"
    /\ RunSingle("unit")

run_integration_tests ==
    /\ selected = "integration"
    /\ RunSingle("integration")

\* run_all_tests that delegates to run_api_tests
run_all_tests_delegating ==
    /\ selected = "all"
    /\ RunSingle("api")

run_all_tests ==
    /\ selected = "all"
    /\ RunSingle("all")

\* the two commands of run_security_scan, in order
scan_commands == <<"bandit", "safety">>

\* run_security_scan with `success = self.run_command(...)`: the last scan
\* decides
RECURSIVE scan_loop_last_wins(_, _, _)
scan_loop_last_wins(i, os, st) ==
    IF i > Len(scan_commands) \/ st.exc # "none" THEN st
    ELSE LET r == run_command(scan_commands[i], os[i]) IN
         scan_loop_last_wins(i + 1, os,
           [runs    |-> Append(st.runs, Run(scan_commands[i], os[i])),
            printed |-> st.printed \o r.line,
            success |-> r.ret,
            exc     |-> r.exc])

\* the body of the for loop of run_security_scan from command i on; st is
\* the state the loop carries
RECURSIVE scan_loop(_, _, _)
scan_loop(i, os, st) ==
    IF i > Len(scan_commands) \/ st.exc # "none" THEN st
    ELSE LET r == run_command(scan_commands[i], os[i]) IN
         scan_loop(i + 1, os,
           [runs    |-> Append(st.runs, Run(scan_commands[i], os[i])),
            printed |-> st.printed \o r.line,
            success |-> IF r.exc # "none" THEN "unbound"
                        ELSE IF r.ret = "False" THEN "False" ELSE st.success,
            exc     |-> r.exc])

run_security_scan ==
    /\ pc = "dispatch"
    /\ selected = "security"
    /\ \E o1 \in Outcomes("bandit"), o2 \in Outcomes("safety") :
         LET st == scan_loop(1, <<o1, o2>>,
                     [runs |-> runs, printed |-> printed,
                      success |-> "True", exc |-> "none"]) IN
           /\ runs' = st.runs
           /\ printed' = st.printed
           /\ success' = st.success
           /\ raised' = st.exc
    /\ pc' = "after_run"
    /\ UNCHANGED <<argv, runner, reports_dir, files, summary_calls, summary,
                   coverage_line, traceback, exit_code>>
    /\ UNCHANGED <<verify_vars, pair_vars, service_vars>>

\* the report loop with the two marks swapped
summary_lines_swapped(fs) == [i \in 1..Len(reports) |-> <<reports[i], reports[i] \notin fs>>]

\* generate_summary: one line per report, then the coverage pointer
summary_lines(fs) == [i \in 1..Len(reports) |-> <<reports[i], reports[i] \in fs>>]

summary_coverage(fs) == IF coverage_path \in fs THEN coverage_path ELSE "none"

\* generate_summary that removes the report files it has listed
generate_summary_consuming ==
    /\ pc = "after_run"
    /\ raised = "none"
    /\ summary_calls' = summary_calls + 1
    /\ summary' = summary_lines(files)
    /\ coverage_line' = summary_coverage(files)
    /\ files' = files \ {reports[i] : i \in 1..Len(reports)}
    /\ pc' = "summary_done"
    /\ UNCHANGED <<argv, runner, reports_dir, runs, printed, success,
                   raised, traceback, exit_code>>
    /\ UNCHANGED <<verify_vars, pair_vars, service_vars>>

generate_summary ==
    /\ pc = "after_run"
    /\ raised = "none"
    /\ summary_calls' = summary_calls + 1
    /\ summary' = summary_lines(files)
    /\ coverage_line' = summary_coverage(files)
    /\ pc' = "summary_done"
    /\ UNCHANGED <<argv, runner, reports_dir, files, runs, printed, success,
                   raised, traceback, exit_code>>
    /\ UNCHANGED <<verify_vars, pair_vars, service_vars>>

\* sys.exit(success): True is status 1, False is status 0
exit_status_bool(s) == IF s = "True" THEN 1 ELSE 0

\* sys.exit(0 if success else 1)
exit_status(s) == IF s = "True" THEN 0 ELSE 1

SysExit ==
    /\ pc = "summary_done"
    /\ exit_code' = exit_status(success)
    /\ pc' = "exited"
    /\ UNCHANGED <<argv, runner, reports_dir, files, runs, printed, success,
                   raised, summary_calls, summary, coverage_line, traceback>>
    /\ UNCHANGED <<verify_vars, pair_vars, service_vars>>

\* `except Exception` in place of `except KeyboardInterrupt`
main_handles_exception(exc) == exc \notin {"none", "KeyboardInterrupt"}

\* the exceptions main's try statement handles
main_handles(exc) == exc = "KeyboardInterrupt"

\* except KeyboardInterrupt: sys.exit(130)
interrupt_status == 130

ExceptKeyboardInterrupt ==
    /\ pc = "after_run"
    /\ raised # "none"
    /\ main_handles(raised)
    /\ exit_code' = interrupt_status
    /\ raised' = "none"
    /\ pc' = "exited"
    /\ UNCHANGED <<argv, runner, reports_dir, files, runs, printed, success,
                   summary_calls, summary, coverage_line, traceback>>
    /\ UNCHANGED <<verify_vars, pair_vars, service_vars>>

\* any other exception leaves main
Unhandled ==
    /\ pc = "after_run"
    /\ raised # "none"
    /\ ~main_handles(raised)
    /\ traceback' = TRUE
    /\ exit_code' = unhandled_status
    /\ pc' = "exited"
    /\ UNCHANGED <<argv, runner, reports_dir, files, runs, printed, success,
                   raised, summary_calls, summary, coverage_line>>
    /\ UNCHANGED <<verify_vars, pair_vars, service_vars>>

RunnerNext ==
    \/ ParseArgs
    \/ Construct
    \/ run_api_tests
    \/ run_database_tests
    \/ run_unit_tests
    \/ run_integration_tests
    \/ run_security_scan
    \/ run_all_tests
    \/ generate_summary
    \/ SysExit
    \/ ExceptKeyboardInterrupt
    \/ Unhandled

(***************************************************************************)
(* Verification Sequence: verify_backend_tests.py                          *)
(***************************************************************************)

\* largest number of defects of the environment (a package that is not
\* installed, a test file that is absent or does not compile, a foreign
\* working directory) in one run
MaxEnvFaults == 1

\* interpreter versions that can load the script (it uses f-strings)
Versions == {<<3, 6>>, <<3, 8>>, <<3, 9>>, <<4, 0>>}

\* check_required_packages: the names probed, in order
required_packages == <<"pytest", "requests", "responses", "factory_boy",
                       "faker", "coverage", "bandit", "safety">>

\* the module name that is imported for a package name
probe_name(package) == IF package = "factory_boy" THEN "factory" ELSE package

Modules == {probe_name(required_packages[i]) : i \in 1..Len(required_packages)}

\* the four test files of check_test_files_exist
test_files == <<"backend/blackbox/test_api_simple.py",
                "backend/blackbox/test_database_simple.py",
                "backend/whitebox/test_unit_simple.py",
                "backend/test_integration_simple.py">>

\* the four test files of run_syntax_check
syntax_files == <<"backend/blackbox/test_api_simple.py",
                  "backend/blackbox/test_database_simple.py",
                  "backend/whitebox/test_unit_simple.py",
                  "backend/test_integration_simple.py">>

TestFileSet == {test_files[i] : i \in 1..Len(test_files)}

\* the files a relative path reaches from the working directory
cwd_files == IF cwd = "script_dir" THEN script_files ELSE {}

\* main's list of checks, by name
checks == <<"Python Version", "Required Packages", "Internet Connectivity",
            "Database Functionality", "Test Files", "Python Syntax",
            "Pytest Collection", "Sample Test">>

\* number of checks in main's list
total_checks == 8

EnvFaults ==
    Cardinality(Modules \ installed) + Cardinality(broken)
      + Cardinality(TestFileSet \ script_files)
      + Cardinality(bad_syntax) + Cardinality(unreadable)
      + (IF cwd = "script_dir" THEN 0 ELSE 1)

VerifyInit ==
    /\ version \in Versions
    /\ installed \in {m \in SUBSET Modules : Cardinality(Modules \ m) <= MaxEnvFaults}
    /\ broken \in {m \in SUBSET installed : Cardinality(m) <= MaxEnvFaults}
    /\ script_files \in SUBSET TestFileSet
    /\ cwd \in {"script_dir", "elsewhere"}
    /\ bad_syntax \in SUBSET script_files
    /\ unreadable \in SUBSET (script_files \ bad_syntax)
    /\ EnvFaults <= MaxEnvFaults
    /\ vpc = "import"
    /\ step = 1
    /\ outcomes = <<>>
    /\ executed = <<>>
    /\ unexpected = <<>>
    /\ passed_checks = 0
    /\ probed = <<>>
    /\ missing_packages = <<>>
    /\ db_file = FALSE
    /\ db_row = <<>>
    /\ db_error = "none"
    /\ not_found = {}
    /\ checks_run = <<>>
    /\ v_success = "unbound"
    /\ v_traceback = "none"
    /\ v_exit = -1

\* the exit status of a process whose main thread dies of an unhandled
\* exception: 1, or for KeyboardInterrupt death by SIGINT (130) from 3.8 on
uncaught_status(exc) ==
    IF exc = "KeyboardInterrupt"
         /\ (version[1] > 3 \/ (version[1] = 3 /\ version[2] >= 8))
      THEN 130 ELSE 1

\* what importing module m raises: ImportError when it is not found, another
\* exception when its own code fails while it is loaded
import_module(m) ==
    IF m \notin installed THEN "ImportError"
    ELSE IF m \in broken THEN "Exception"
    ELSE "none"

\* the module-level imports: `import requests` needs the requests package
ImportModule ==
    /\ vpc = "import"
    /\ IF import_module("requests") = "none"
         THEN vpc' = "checks" /\ UNCHANGED <<v_traceback, v_exit>>
         ELSE /\ vpc' = "exited"
              /\ v_traceback' = import_module("requests")
              /\ v_exit' = uncaught_status(import_module("requests"))
    /\ UNCHANGED <<version, installed, broken, script_files, cwd, bad_syntax, unreadable,
                   step, outcomes, executed, unexpected, passed_checks, probed,
                   missing_packages, db_file, db_row, db_error, not_found, checks_run, v_success>>
    /\ UNCHANGED <<runner_vars, pair_vars, service_vars>>

\* the exceptions `except Exception` catches
is_exception(exc) == exc \notin {"none", "KeyboardInterrupt"}

\* one iteration of main's for loop around a check that returned r.ret or
\* raised r.exc
at_check(k) == vpc = "checks" /\ step = k

Iterate(k, r) ==
    /\ at_check(k)
    /\ IF r.exc = "none" \/ is_exception(r.exc)
         THEN /\ outcomes' = Append(outcomes,
                    IF r.exc = "none" /\ r.ret THEN "passed" ELSE "failed")
              /\ passed_checks' = IF r.exc = "none" /\ r.ret
                                    THEN passed_checks + 1 ELSE passed_checks
              /\ unexpected' = IF is_exception(r.exc)
                                 THEN Append(unexpected, checks[k]) ELSE unexpected
              /\ step' = step + 1
              /\ vpc' = IF step = total_checks THEN "summary" ELSE "checks"
              /\ UNCHANGED <<v_traceback, v_exit>>
         ELSE /\ vpc' = "exited"
              /\ v_traceback' = r.exc
              /\ v_exit' = uncaught_status(r.exc)
              /\ UNCHANGED <<outcomes, unexpected, passed_checks, step>>
    /\ executed' = Append(executed, checks[k])
    /\ UNCHANGED <<version, installed, broken, script_files, cwd, bad_syntax, unreadable,
                   v_success>>
    /\ UNCHANGED <<runner_vars, pair_vars, service_vars>>

Returned(b) == [ret |-> b, exc |-> "none"]

Raised(e) == [ret |-> FALSE, exc |-> e]

\* check_python_version
version_ok(v) == v[1] = 3 /\ v[2] >= 9

check_python_version ==
    /\ at_check(1)
    /\ Iterate(1, Returned(version_ok(version)))
    /\ UNCHANGED <<probed, missing_packages, db_file, db_row, db_error, not_found, checks_run>>

\* check_required_packages: the for loop from package i on; st carries the
\* packages probed so far, those recorded as missing and the exception that
\* left the function. `except ImportError` catches nothing else.
RECURSIVE probe_loop(_, _)
probe_loop(i, st) ==
    IF i > Len(required_packages) \/ st.exc # "none" THEN st
    ELSE LET package == required_packages[i]
             raised_by_import == import_module(probe_name(package))
         IN  probe_loop(i + 1,
               [probed  |-> Append(st.probed, package),
                missing |-> IF raised_by_import = "ImportError"
                              THEN Append(st.missing, package) ELSE st.missing,
                exc     |-> IF raised_by_import = "ImportError"
                              THEN "none" ELSE raised_by_import])

probe_result == probe_loop(1, [probed |-> <<>>, missing |-> <<>>, exc |-> "none"])

check_required_packages ==
    /\ at_check(2)
    /\ probed' = probe_result.probed
    /\ missing_packages' = probe_result.missing
    /\ Iterate(2, IF probe_result.exc = "none"
                    THEN Returned(probe_result.missing = <<>>)
                    ELSE Raised(probe_result.exc))
    /\ UNCHANGED <<db_file, db_row, db_error, not_found, checks_run>>

\* check_internet_connectivity: the GET answers with a status, or raises
\* requests.exceptions.RequestException
HttpOutcomes == {200, 500, -1}

connectivity_ok(http) == http = 200

check_internet_connectivity ==
    /\ at_check(3)
    /\ \E http \in HttpOutcomes : Iterate(3, Returned(connectivity_ok(http)))
    /\ UNCHANGED <<probed, missing_packages, db_file, db_row, db_error, not_found, checks_run>>

\* check_database_functionality: the statements of the try block, in order
db_steps == <<"tempfile", "connect", "cursor", "create", "insert", "select",
              "fetchone", "commit", "close", "unlink">>

DbFailures == {"none"} \cup {db_steps[i] : i \in 1..Len(db_steps)}

\* rows fetchone can return; <<>> stands for None
Rows == {<<>>, <<1, "Test User", "test@example.com">>,
         <<1, "Other User", "test@example.com">>}

\* index of a statement in the try block (0 for "none")
RECURSIVE db_index(_, _)
db_index(s, i) ==
    IF i > Len(db_steps) THEN 0
    ELSE IF db_steps[i] = s THEN i ELSE db_index(s, i + 1)

\* TRUE when statement s completed in a run whose statement fail_at raised
db_done(s, fail_at) ==
    fail_at = "none" \/ db_index(s, 1) < db_index(fail_at, 1)

\* a variant that accepts any row that was read back
db_check_any_row(fail_at, row) ==
    [ret   |-> fail_at = "none" /\ row # <<>>,
     exc   |-> "none",
     file  |-> db_done("tempfile", fail_at) /\ ~db_done("unlink", fail_at),
     row   |-> IF db_done("fetchone", fail_at) THEN row ELSE <<>>,
     error |-> fail_at]

\* the outcome of the check when statement fail_at raises (an sqlite3 or OS
\* error) and fetchone returns row
db_check(fail_at, row) ==
    [ret   |-> fail_at = "none" /\ row # <<>> /\ row[2] = "Test User",
     exc   |-> "none",
     \* the file is left behind when it was created and unlink did not run
     file  |-> db_done("tempfile", fail_at) /\ ~db_done("unlink", fail_at),
     row   |-> IF db_done("fetchone", fail_at) THEN row ELSE <<>>,
     error |-> fail_at]

check_database_functionality ==
    /\ at_check(4)
    /\ \E fail_at \in DbFailures, row \in Rows :
         LET r == db_check(fail_at, row) IN
           /\ db_file' = r.file
           /\ db_row' = r.row
           /\ db_error' = r.error
           /\ Iterate(4, r)
    /\ UNCHANGED <<probed, missing_packages, not_found, checks_run>>

\* check_test_files_exist: paths are joined to the script's directory
files_exist(fs) == \A i \in 1..Len(test_files) : test_files[i] \in fs

check_test_files_exist ==
    /\ at_check(5)
    /\ Iterate(5, Returned(files_exist(script_files)))
    /\ UNCHANGED <<probed, missing_packages, db_file, db_row, db_error, not_found, checks_run>>

\* run_syntax_check: paths are opened relative to the working directory.
\* The for loop from file i on; st carries all_valid, the files reported as
\* 'File not found' and the exception that left the function. A file that
\* cannot be decoded raises UnicodeDecodeError in f.read(), which neither
\* except clause catches.
RECURSIVE syntax_loop(_, _)
syntax_loop(i, st) ==
    IF i > Len(syntax_files) \/ st.exc # "none" THEN st
    ELSE LET f == syntax_files[i] IN
         syntax_loop(i + 1,
           IF f \notin cwd_files
             THEN [valid |-> FALSE, not_found |-> st.not_found \cup {f}, exc |-> "none"]
           ELSE IF f \in unreadable
             THEN [valid |-> st.valid, not_found |-> st.not_found, exc |-> "UnicodeDecodeError"]
           ELSE IF f \in bad_syntax
             THEN [valid |-> FALSE, not_found |-> st.not_found, exc |-> "none"]
           ELSE st)

syntax_result == syntax_loop(1, [valid |-> TRUE, not_found |-> {}, exc |-> "none"])

syntax_not_found == syntax_result.not_found

syntax_valid == syntax_result.exc = "none" /\ syntax_result.valid

run_syntax_check ==
    /\ at_check(6)
    /\ not_found' = syntax_not_found
    /\ Iterate(6, IF syntax_result.exc = "none"
                    THEN Returned(syntax_valid) ELSE Raised(syntax_result.exc))
    /\ UNCHANGED <<probed, missing_packages, db_file, db_row, db_error, checks_run>>

\* the third-party modules each test file imports
imports(f) ==
    CASE f = "backend/blackbox/test_api_simple.py" -> {"pytest", "requests", "responses", "faker"}
      [] f = "backend/blackbox/test_database_simple.py" -> {"pytest", "factory", "faker"}
      [] f = "backend/whitebox/test_unit_simple.py" -> {"pytest", "requests"}
      [] OTHER -> {"pytest", "requests", "factory"}

\* TRUE when pytest can load test file f from the working directory
loadable(f) ==
    /\ f \in cwd_files
    /\ f \notin bad_syntax
    /\ f \notin unreadable
    /\ \A m \in imports(f) : import_module(m) = "none"

\* the collection dry run of "backend/" can exit 0 only when pytest is
\* installed and every test file found there loads
collect_can_pass ==
    /\ import_module("pytest") = "none"
    /\ cwd_files # {}
    /\ \A f \in cwd_files : loadable(f)

\* the sample test can exit 0 only when its file loads
sample_can_pass == loadable("backend/blackbox/test_api_simple.py")

\* what subprocess.run(..., timeout=n) can do in a check
CheckOutcomes(can_pass) ==
    [kind : {"exit"}, code : (IF can_pass THEN 0 ELSE 1)..MaxExitCode]
      \cup [kind : {"timeout", "oserror", "interrupt"}, code : {-1}]

\* a variant without the except subprocess.TimeoutExpired clause and whose
\* except Exception clause does not cover it: the timeout leaves the check
subprocess_check_timeout_raises(o) ==
    IF o.kind = "exit" THEN Returned(o.code = 0)
    ELSE IF o.kind = "timeout" THEN Raised("TimeoutExpired")
    ELSE IF o.kind = "oserror" THEN Returned(FALSE)
    ELSE Raised("KeyboardInterrupt")

\* the try statement shared by run_quick_test and run_sample_backend_test
subprocess_check(o) ==
    IF o.kind = "exit" THEN Returned(o.code = 0)
    ELSE IF o.kind = "timeout" THEN Returned(FALSE)
    ELSE IF o.kind = "oserror" THEN Returned(FALSE)
    ELSE Raised("KeyboardInterrupt")

run_quick_test ==
    /\ at_check(7)
    /\ \E o \in CheckOutcomes(collect_can_pass) :
         /\ checks_run' = Append(checks_run, [cmd |-> "collect", kind |-> o.kind, code |-> o.code])
         /\ Iterate(7, subprocess_check(o))
    /\ UNCHANGED <<probed, missing_packages, db_file, db_row, db_error, not_found>>

run_sample_backend_test ==
    /\ at_check(8)
    /\ \E o \in CheckOutcomes(sample_can_pass) :
         /\ checks_run' = Append(checks_run, [cmd |-> "sample", kind |-> o.kind, code |-> o.code])
         /\ Iterate(8, subprocess_check(o))
    /\ UNCHANGED <<probed, missing_packages, db_file, db_row, db_error, not_found>>

\* the tail of main: the summary and the value returned
all_passed(passed) == passed = total_checks

VerifySummary ==
    /\ vpc = "summary"
    /\ v_success' = IF all_passed(passed_checks) THEN "True" ELSE "False"
    /\ vpc' = "returned"
    /\ UNCHANGED <<version, installed, broken, script_files, cwd, bad_syntax, unreadable,
                   step, outcomes, executed, unexpected, passed_checks, probed,
                   missing_packages, db_file, db_row, db_error, not_found, checks_run, v_traceback, v_exit>>
    /\ UNCHANGED <<runner_vars, pair_vars, service_vars>>

\* sys.exit(0 if success else 1)
VerifyExit ==
    /\ vpc = "returned"
    /\ v_exit' = exit_status(v_success)
    /\ vpc' = "exited"
    /\ UNCHANGED <<version, installed, broken, script_files, cwd, bad_syntax, unreadable,
                   step, outcomes, executed, unexpected, passed_checks, probed,
                   missing_packages, db_file, db_row, db_error, not_found, checks_run, v_success, v_traceback>>
    /\ UNCHANGED <<runner_vars, pair_vars, service_vars>>

VerifyNext ==
    \/ ImportModule
    \/ check_python_version
    \/ check_required_packages
    \/ check_internet_connectivity
    \/ check_database_functionality
    \/ check_test_files_exist
    \/ run_syntax_check
    \/ run_quick_test
    \/ run_sample_backend_test
    \/ VerifySummary
    \/ VerifyExit

(***************************************************************************)
(* Specifications: each script is a process of its own.                    *)
(***************************************************************************)
\* the Verification Sequence before it is started
VerifyIdle ==
    /\ version = <<3, 9>>
    /\ installed = Modules
    /\ broken = {}
    /\ script_files = TestFileSet
    /\ cwd = "script_dir"
    /\ bad_syntax = {}
    /\ unreadable = {}
    /\ vpc = "idle"
    /\ step = 1
    /\ outcomes = <<>>
    /\ executed = <<>>
    /\ unexpected = <<>>
    /\ passed_checks = 0
    /\ probed = <<>>
    /\ missing_packages = <<>>
    /\ db_file = FALSE
    /\ db_row = <<>>
    /\ db_error = "none"
    /\ not_found = {}
    /\ checks_run = <<>>
    /\ v_success = "unbound"
    /\ v_traceback = "none"
    /\ v_exit = -1

\* the Test Runner before it is started
RunnerIdle ==
    /\ pc = "idle"
    /\ argv = {}
    /\ runner = "none"
    /\ files = {}
    /\ reports_dir = FALSE
    /\ runs = <<>>
    /\ printed = <<>>
    /\ success = "unbound"
    /\ raised = "none"
    /\ summary_calls = 0
    /\ summary = <<>>
    /\ coverage_line = "none"
    /\ traceback = FALSE
    /\ exit_code = -1

\* no run of the Verification Sequence is kept for a comparison
no_fault == [check |-> 0, kind |-> "none", what |-> "none"]

no_ref == [phase |-> 1, fault |-> no_fault, outcomes |-> <<>>,
           db_error |-> "none", db_row |-> <<>>, checks_run |-> <<>>]

PairIdle == ref = no_ref

\* no call was made on a service or on the load-test user
no_call == [svc |-> "none", op |-> "none", arg |-> <<>>, ret |-> <<>>, exc |-> "none",
            requests |-> 0, status |-> 0]

ServiceIdle ==
    /\ n_ops = 0
    /\ cache = <<>>
    /\ api_calls = <<>>
    /\ last = no_call
    /\ users = <<>>
    /\ reg_users = <<>>
    /\ sent = <<>>
    /\ cart_items = <<>>
    /\ last_task = [task |-> "none", requests |-> <<>>]

Init == RunnerInit /\ VerifyIdle /\ PairIdle /\ ServiceIdle

Next == RunnerNext

Spec == Init /\ [][Next]_vars

VerifySpecInit == VerifyInit /\ RunnerIdle /\ PairIdle /\ ServiceIdle

VerifySpecNext == VerifyNext

VerifySpec == VerifySpecInit /\ [][VerifySpecNext]_vars

(***************************************************************************)
(* Two runs of the Verification Sequence: the script is run in an          *)
(* environment without defect, then run again in an environment that       *)
(* differs from it in one thing that makes one check fail.                 *)
(***************************************************************************)
\* the single differences, each with the check it makes fail
Faults ==
    {[check |-> 1, kind |-> "version", what |-> "none"]}
      \cup {[check |-> 2, kind |-> "package", what |-> m] : m \in Modules}
      \cup {[check |-> 3, kind |-> "network", what |-> "none"]}
      \cup {[check |-> 4, kind |-> "database", what |-> "none"]}
      \cup {[check |-> 5, kind |-> "file", what |-> f] : f \in TestFileSet}
      \cup {[check |-> 6, kind |-> "syntax", what |-> f] : f \in TestFileSet}
      \cup {[check |-> 6, kind |-> "unreadable", what |-> f] : f \in TestFileSet}
      \cup {[check |-> k, kind |-> "timeout", what |-> "none"] : k \in {7, 8}}

\* the script is started a second time, in the environment changed by one
\* fault
SecondRun ==
    /\ vpc = "exited" /\ ref.phase = 1
    /\ \E fault \in Faults :
         /\ fault.kind \in {"network", "database", "timeout"}
              => Len(outcomes) >= fault.check /\ outcomes[fault.check] = "passed"
         /\ ref' = [phase |-> 2, fault |-> fault, outcomes |-> outcomes,
                    db_error |-> db_error, db_row |-> db_row, checks_run |-> checks_run]
         /\ version' \in (IF fault.kind = "version"
                            THEN {v \in Versions : ~version_ok(v)} ELSE {version})
         /\ installed' = IF fault.kind = "package" THEN installed \ {fault.what} ELSE installed
         /\ broken' = broken
         /\ script_files' = IF fault.kind = "file" THEN script_files \ {fault.what} ELSE script_files
         /\ bad_syntax' = IF fault.kind = "syntax" THEN {fault.what} ELSE bad_syntax
         /\ unreadable' = IF fault.kind = "unreadable" THEN {fault.what} ELSE unreadable
         /\ cwd' = cwd
         /\ vpc' = "import"
         /\ step' = 1
         /\ outcomes' = <<>>
         /\ executed' = <<>>
         /\ unexpected' = <<>>
         /\ passed_checks' = 0
         /\ probed' = <<>>
         /\ missing_packages' = <<>>
         /\ db_file' = FALSE
         /\ db_row' = <<>>
         /\ db_error' = "none"
         /\ not_found' = {}
         /\ checks_run' = <<>>
         /\ v_success' = "unbound"
         /\ v_traceback' = "none"
         /\ v_exit' = -1
    /\ UNCHANGED <<runner_vars, service_vars>>

\* in the second run the network answers as in the first, unless it is the
\* difference
pair_internet_connectivity ==
    /\ check_internet_connectivity
    /\ ref.phase = 2
         => outcomes'[3] = (IF ref.fault.kind = "network"
                              THEN "failed" ELSE ref.outcomes[3])

\* in the second run sqlite behaves as in the first, unless it is the
\* difference
pair_database_functionality ==
    /\ check_database_functionality
    /\ ref.phase = 2
         => IF ref.fault.kind = "database"
              THEN outcomes'[4] = "failed"
              ELSE db_error' = ref.db_error /\ db_row' = ref.db_row

\* child process c of check k ends in the second run as child process i of
\* the first run did, unless its timeout is the difference; a child that
\* exited 0 and no longer can exits 1
child_alike(c, i, can_pass, k) ==
    IF ref.fault.kind = "timeout" /\ ref.fault.check = k
      THEN c.kind = "timeout"
      ELSE /\ i <= Len(ref.checks_run)
           /\ c.kind = ref.checks_run[i].kind
           /\ c.kind = "exit"
                => c.code = (IF can_pass \/ ref.checks_run[i].code # 0
                               THEN ref.checks_run[i].code ELSE 1)

pair_quick_test ==
    /\ run_quick_test
    /\ ref.phase = 2 => child_alike(checks_run'[1], 1, collect_can_pass, 7)

pair_sample_backend_test ==
    /\ run_sample_backend_test
    /\ ref.phase = 2 => child_alike(checks_run'[2], 2, sample_can_pass, 8)

PairInit ==
    /\ VerifyInit
    /\ EnvFaults = 0
    /\ version_ok(version)
    /\ RunnerIdle
    /\ ref = no_ref
    /\ ServiceIdle

PairNext ==
    \/ ImportModule
    \/ check_python_version
    \/ check_required_packages
    \/ pair_internet_connectivity
    \/ pair_database_functionality
    \/ check_test_files_exist
    \/ run_syntax_check
    \/ pair_quick_test
    \/ pair_sample_backend_test
    \/ VerifySummary
    \/ VerifyExit
    \/ SecondRun

PairSpec == PairInit /\ [][PairNext]_vars

(***************************************************************************)
(* Python values as the services receive them: a value carries its type,   *)
(* so that truth tests and SQLite's conversions can be computed.           *)
(***************************************************************************)
\* a key that is absent from a dict
Missing == [t |-> "missing", v |-> ""]

None == [t |-> "NoneType", v |-> ""]

str(s) == [t |-> "str", v |-> s]

int(s) == [t |-> "int", v |-> s]

\* dict.get(key): None for an absent key
dict_get(x) == IF x = Missing THEN None ELSE x

\* dict.get(key, default)
dict_get_default(x, default) == IF x = Missing THEN default ELSE x

\* the truth value of `not x` negated: None, "" and 0 are false
truthy(x) == x.t \in {"str", "int"} /\ x.v \notin {"", "0"}

\* largest number of calls made on the services of one specification
MaxOps == 3

(***************************************************************************)
(* UserService: backend/whitebox/test_unit_simple.py                       *)
(***************************************************************************)
UserIds == {1, 2}

\* what requests.get can give: a response whose body is a JSON document, the
\* JSON null or not JSON, an error status, or a connection error
GetResponses ==
    [kind : {"response"}, status : {200}, body : {"user_v1", "user_v2", "null", "invalid"}]
      \cup [kind : {"response"}, status : {404, 500}, body : {"invalid"}]
      \cup [kind : {"error"}, status : {0}, body : {"invalid"}]

\* response.json() of a body that is JSON
json(body) == IF body = "null" THEN "None" ELSE body

\* the cache with user_id bound to data
cache_put(c, user_id, data) ==
    [i \in DOMAIN c \cup {user_id} |-> IF i = user_id THEN data ELSE c[i]]

\* get_user without the cache lookup
get_user_uncached(c, user_id, resp) ==
    IF resp.kind = "error"
      THEN [ret |-> "unbound", exc |-> "ConnectionError", cache |-> c,
            requests |-> <<[method |-> "GET", arg |-> user_id]>>]
    ELSE IF resp.status = 200
      THEN IF resp.body = "invalid"
             THEN [ret |-> "unbound", exc |-> "JSONDecodeError", cache |-> c,
                   requests |-> <<[method |-> "GET", arg |-> user_id]>>]
             ELSE [ret |-> json(resp.body), exc |-> "none",
                   cache |-> cache_put(c, user_id, json(resp.body)),
                   requests |-> <<[method |-> "GET", arg |-> user_id]>>]
    ELSE [ret |-> "None", exc |-> "none", cache |-> c,
          requests |-> <<[method |-> "GET", arg |-> user_id]>>]

\* get_user that stores what it returns whatever the status
get_user_caching_failures(c, user_id, resp) ==
    IF user_id \in DOMAIN c
      THEN [ret |-> c[user_id], exc |-> "none", cache |-> c, requests |-> <<>>]
    ELSE IF resp.kind = "response" /\ resp.status # 200
      THEN [ret |-> "None", exc |-> "none", cache |-> cache_put(c, user_id, "None"),
            requests |-> <<[method |-> "GET", arg |-> user_id]>>]
    ELSE get_user_uncached(c, user_id, resp)

\* UserService.get_user: the value returned or the exception raised, the
\* cache afterwards and the requests made
get_user(c, user_id, resp) ==
    IF user_id \in DOMAIN c
      THEN [ret |-> c[user_id], exc |-> "none", cache |-> c, requests |-> <<>>]
    ELSE IF resp.kind = "error"
      THEN [ret |-> "unbound", exc |-> "ConnectionError", cache |-> c,
            requests |-> <<[method |-> "GET", arg |-> user_id]>>]
    ELSE IF resp.status = 200
      THEN IF resp.body = "invalid"
             THEN [ret |-> "unbound", exc |-> "JSONDecodeError", cache |-> c,
                   requests |-> <<[method |-> "GET", arg |-> user_id]>>]
             ELSE [ret |-> json(resp.body), exc |-> "none",
                   cache |-> cache_put(c, user_id, json(resp.body)),
                   requests |-> <<[method |-> "GET", arg |-> user_id]>>]
    ELSE [ret |-> "None", exc |-> "none", cache |-> c,
          requests |-> <<[method |-> "GET", arg |-> user_id]>>]

UserService_get_user ==
    /\ n_ops < MaxOps
    /\ \E user_id \in UserIds, resp \in GetResponses :
         LET r == get_user(cache, user_id, resp) IN
           /\ cache' = r.cache
           /\ api_calls' = api_calls \o r.requests
           /\ last' = [svc |-> "UserService", op |-> "get_user", arg |-> user_id,
                       ret |-> r.ret, exc |-> r.exc, requests |-> Len(r.requests),
                       status |-> IF r.requests = <<>> THEN 0 ELSE resp.status]
    /\ n_ops' = n_ops + 1
    /\ UNCHANGED <<database_vars, registration_vars, locust_vars>>
    /\ UNCHANGED <<runner_vars, verify_vars, pair_vars>>

\* UserService.clear_cache
UserService_clear_cache ==
    /\ n_ops < MaxOps
    /\ cache' = <<>>
    /\ last' = [svc |-> "UserService", op |-> "clear_cache", arg |-> <<>>,
                ret |-> "None", exc |-> "none", requests |-> 0, status |-> 0]
    /\ n_ops' = n_ops + 1
    /\ UNCHANGED <<api_calls, database_vars, registration_vars, locust_vars>>
    /\ UNCHANGED <<runner_vars, verify_vars, pair_vars>>

\* the user_data dicts given to create_user and register_user
UserData ==
    [name  : {str("Ann"), str(""), None, Missing},
     email : {str("a@x"), str("b@x"), str(""), Missing},
     age   : {int("30"), str("30"), Missing}]

\* the test both services make before anything else
data_accepted(user_data) ==
    truthy(dict_get(user_data.name)) /\ truthy(dict_get(user_data.email))

\* what requests.post can give
PostResponses ==
    [kind : {"response"}, status : {200, 201, 400}] \cup {[kind |-> "error", status |-> 0]}

\* create_user that posts before it validates
create_user_posting_first(user_data, resp) ==
    IF ~data_accepted(user_data)
      THEN [ret |-> "unbound", exc |-> "ValueError: Name and email are required",
            requests |-> <<[method |-> "POST", arg |-> user_data]>>]
    ELSE IF resp.kind = "error"
      THEN [ret |-> "unbound", exc |-> "ConnectionError",
            requests |-> <<[method |-> "POST", arg |-> user_data]>>]
    ELSE IF resp.status = 201
      THEN [ret |-> "created", exc |-> "none",
            requests |-> <<[method |-> "POST", arg |-> user_data]>>]
    ELSE [ret |-> "unbound", exc |-> "Exception: Failed to create user",
          requests |-> <<[method |-> "POST", arg |-> user_data]>>]

\* UserService.create_user
create_user(user_data, resp) ==
    IF ~data_accepted(user_data)
      THEN [ret |-> "unbound", exc |-> "ValueError: Name and email are required",
            requests |-> <<>>]
    ELSE IF resp.kind = "error"
      THEN [ret |-> "unbound", exc |-> "ConnectionError",
            requests |-> <<[method |-> "POST", arg |-> user_data]>>]
    ELSE IF resp.status = 201
      THEN [ret |-> "created", exc |-> "none",
            requests |-> <<[method |-> "POST", arg |-> user_data]>>]
    ELSE [ret |-> "unbound", exc |-> "Exception: Failed to create user",
          requests |-> <<[method |-> "POST", arg |-> user_data]>>]

UserService_create_user ==
    /\ n_ops < MaxOps
    /\ \E user_data \in UserData, resp \in PostResponses :
         LET r == create_user(user_data, resp) IN
           /\ api_calls' = api_calls \o r.requests
           /\ last' = [svc |-> "UserService", op |-> "create_user", arg |-> user_data,
                       ret |-> r.ret, exc |-> r.exc, requests |-> Len(r.requests),
                       status |-> IF r.requests = <<>> THEN 0 ELSE resp.status]
    /\ n_ops' = n_ops + 1
    /\ UNCHANGED <<cache, database_vars, registration_vars, locust_vars>>
    /\ UNCHANGED <<runner_vars, verify_vars, pair_vars>>

UserServiceInit == RunnerIdle /\ VerifyIdle /\ PairIdle /\ ServiceIdle

UserServiceNext ==
    \/ UserService_get_user
    \/ UserService_clear_cache
    \/ UserService_create_user

UserServiceSpec == UserServiceInit /\ [][UserServiceNext]_vars

(***************************************************************************)
(* DatabaseService: backend/blackbox/test_database_simple.py               *)
(***************************************************************************)
\* the strings SQLite reads as an integer
IntegerLiterals == {"1", "30"}

\* a value stored in a column declared TEXT: a number becomes its text
text_affinity(x) == IF x.t = "int" THEN str(x.v) ELSE x

\* a value stored in, or compared with, a column declared INTEGER: a string
\* that reads as an integer becomes that integer
integer_affinity(x) ==
    IF x.t = "str" /\ x.v \in IntegerLiterals THEN int(x.v) ELSE x

\* the Python int of a rowid
rowid_literals == <<"1", "2", "3", "4", "5", "6">>

rowid(n) == int(rowid_literals[n])

\* the row INSERT INTO users (name, email, age) stores
stored_row(rows, name, email, age) ==
    [id |-> Len(rows) + 1, name |-> text_affinity(name),
     email |-> text_affinity(email), age |-> integer_affinity(age)]

\* email TEXT UNIQUE: NULLs never collide
unique_violation(rows, email) ==
    /\ email # None
    /\ \E i \in 1..Len(rows) : rows[i].email = text_affinity(email)

\* create_user without the UNIQUE constraint on email
create_user_without_unique(rows, name, email, age) ==
    IF name = None \/ email = None
      THEN [ret |-> 0, exc |-> "IntegrityError", rows |-> rows]
    ELSE [ret |-> Len(rows) + 1, exc |-> "none",
          rows |-> Append(rows, stored_row(rows, name, email, age))]

\* DatabaseService.create_user: name and email are NOT NULL, email is UNIQUE;
\* the connection's context manager commits, or rolls back on an exception
DatabaseService_create(rows, name, email, age) ==
    IF name = None \/ email = None \/ unique_violation(rows, email)
      THEN [ret |-> 0, exc |-> "IntegrityError", rows |-> rows]
    ELSE [ret |-> Len(rows) + 1, exc |-> "none",
          rows |-> Append(rows, stored_row(rows, name, email, age))]

\* the dict made of a row
row_dict(row) ==
    [id |-> rowid(row.id), name |-> row.name, email |-> row.email, age |-> row.age]

\* get_user that returns the first row whatever the id
get_first_user(rows, user_id) ==
    IF rows = <<>> THEN <<>> ELSE <<row_dict(rows[1])>>

\* DatabaseService.get_user: SELECT * FROM users WHERE id = ?; <<>> is None
DatabaseService_get(rows, user_id) ==
    LET found == {i \in 1..Len(rows) : rowid(rows[i].id) = integer_affinity(user_id)} IN
      IF found = {} THEN <<>> ELSE <<row_dict(rows[CHOOSE i \in found : TRUE])>>

\* the arguments given to create_user
CreateArgs ==
    {str("Ann"), None} \X {str("a@x"), str("b@x"), None} \X {int("30"), str("30"), None}

\* the ids asked of get_user
QueryIds == {int("1"), int("2"), str("1"), int("6")}

DatabaseService_create_user ==
    /\ n_ops < MaxOps
    /\ \E arg \in CreateArgs :
         LET r == DatabaseService_create(users, arg[1], arg[2], arg[3]) IN
           /\ users' = r.rows
           /\ last' = [svc |-> "DatabaseService", op |-> "create_user", arg |-> arg,
                       ret |-> r.ret, exc |-> r.exc, requests |-> 0, status |-> 0]
    /\ n_ops' = n_ops + 1
    /\ UNCHANGED <<user_service_vars, registration_vars, locust_vars>>
    /\ UNCHANGED <<runner_vars, verify_vars, pair_vars>>

DatabaseService_get_user ==
    /\ n_ops < MaxOps
    /\ \E user_id \in QueryIds :
         last' = [svc |-> "DatabaseService", op |-> "get_user", arg |-> user_id,
                  ret |-> DatabaseService_get(users, user_id), exc |-> "none",
                  requests |-> 0, status |-> 0]
    /\ n_ops' = n_ops + 1
    /\ UNCHANGED <<users, user_service_vars, registration_vars, locust_vars>>
    /\ UNCHANGED <<runner_vars, verify_vars, pair_vars>>

(***************************************************************************)
(* UserRegistrationService: backend/test_integration_simple.py             *)
(***************************************************************************)
\* the default of user_data.get('age', 25)
default_age == int("25")

\* DatabaseService.save_user of the integration module: only email UNIQUE
save_user(rows, user) ==
    IF unique_violation(rows, user.email)
      THEN [ret |-> 0, exc |-> "IntegrityError", rows |-> rows]
    ELSE [ret |-> Len(rows) + 1, exc |-> "none",
          rows |-> Append(rows, stored_row(rows, user.name, user.email, user.age))]

\* register_user that sends the welcome email before saving the user
register_notifying_first(rows, mails, user_data) ==
    IF ~data_accepted(user_data)
      THEN [ret |-> <<>>, exc |-> "ValueError: Name and email are required",
            rows |-> rows, sent |-> mails]
    ELSE LET user  == [name |-> user_data.name, email |-> user_data.email,
                       age |-> dict_get_default(user_data.age, default_age)]
             saved == save_user(rows, user)
             mail  == [email |-> user.email, name |-> user.name]
         IN  IF saved.exc # "none"
               THEN [ret |-> <<>>, exc |-> saved.exc, rows |-> rows,
                     sent |-> Append(mails, mail)]
               ELSE [ret |-> <<row_dict(saved.rows[saved.ret])>>, exc |-> "none",
                     rows |-> saved.rows, sent |-> Append(mails, mail)]

\* UserRegistrationService.register_user: validate, save, notify, read back
register(rows, mails, user_data) ==
    IF ~data_accepted(user_data)
      THEN [ret |-> <<>>, exc |-> "ValueError: Name and email are required",
            rows |-> rows, sent |-> mails]
    ELSE LET user  == [name |-> user_data.name, email |-> user_data.email,
                       age |-> dict_get_default(user_data.age, default_age)]
             saved == save_user(rows, user)
         IN  IF saved.exc # "none"
               THEN [ret |-> <<>>, exc |-> saved.exc, rows |-> rows, sent |-> mails]
               ELSE [ret |-> DatabaseService_get(saved.rows, rowid(saved.ret)),
                     exc |-> "none", rows |-> saved.rows,
                     sent |-> Append(mails, [email |-> user.email, name |-> user.name])]

register_user ==
    /\ n_ops < MaxOps
    /\ \E user_data \in UserData :
         LET r == register(reg_users, sent, user_data) IN
           /\ reg_users' = r.rows
           /\ sent' = r.sent
           /\ last' = [svc |-> "UserRegistrationService", op |-> "register_user",
                       arg |-> user_data, ret |-> r.ret, exc |-> r.exc,
                       requests |-> 0, status |-> 0]
    /\ n_ops' = n_ops + 1
    /\ UNCHANGED <<user_service_vars, database_vars, locust_vars>>
    /\ UNCHANGED <<runner_vars, verify_vars, pair_vars>>

\* the two database services and the registration service
DatabaseInit == RunnerIdle /\ VerifyIdle /\ PairIdle /\ ServiceIdle

DatabaseNext ==
    \/ DatabaseService_create_user
    \/ DatabaseService_get_user
    \/ register_user

DatabaseSpec == DatabaseInit /\ [][DatabaseNext]_vars

\* the two services that validate user data
ValidationInit == RunnerIdle /\ VerifyIdle /\ PairIdle /\ ServiceIdle

ValidationNext ==
    \/ UserService_create_user
    \/ register_user

ValidationSpec == ValidationInit /\ [][ValidationNext]_vars

(***************************************************************************)
(* WebsiteLoadTest: performance/locustfile.py.  One simulated user: locust *)
(* calls on_start, then the tasks one after the other, then on_stop.  The  *)
(* client never raises: a request that could not be sent comes back as a   *)
(* response with status 0.                                                 *)
(***************************************************************************)
\* status codes of the responses the site under load gives
Statuses == {200, 404, 0}

product_ids == {"4", "5", "6"}

\* the names of the five requests of checkout_process, in order
checkout_steps ==
    <<"View Cart", "Start Checkout", "Submit Shipping Info", "Review Order",
      "Complete Order">>

request(name, status) == [name |-> name, status |-> status]

\* the user is between on_start and on_stop
running == last_task.task \notin {"none", "on_stop"}

on_start ==
    /\ last_task.task = "none"
    /\ \E s1, s2 \in Statuses :
         last_task' = [task |-> "on_start",
                       requests |-> <<request("/", s1), request("/login", s2)>>]
    /\ UNCHANGED <<n_ops, last, cart_items>>
    /\ UNCHANGED <<user_service_vars, database_vars, registration_vars>>
    /\ UNCHANGED <<runner_vars, verify_vars, pair_vars>>

browse_products ==
    /\ running /\ n_ops < MaxOps
    /\ \E s \in Statuses :
         last_task' = [task |-> "browse_products",
                       requests |-> <<request("View Products", s)>>]
    /\ n_ops' = n_ops + 1
    /\ UNCHANGED <<last, cart_items>>
    /\ UNCHANGED <<user_service_vars, database_vars, registration_vars>>
    /\ UNCHANGED <<runner_vars, verify_vars, pair_vars>>

product_search ==
    /\ running /\ n_ops < MaxOps
    /\ \E s \in Statuses :
         last_task' = [task |-> "product_search",
                       requests |-> <<request("Search Products", s)>>]
    /\ n_ops' = n_ops + 1
    /\ UNCHANGED <<last, cart_items>>
    /\ UNCHANGED <<user_service_vars, database_vars, registration_vars>>
    /\ UNCHANGED <<runner_vars, verify_vars, pair_vars>>

\* add_to_cart that appends the product whatever the response
cart_add_ignoring_status(cart, product_id, status) == Append(cart, product_id)

\* the cart after the response to POST /cart-add/{product_id}
cart_add(cart, product_id, status) ==
    IF status = 200 THEN Append(cart, product_id) ELSE cart

add_to_cart ==
    /\ running /\ n_ops < MaxOps
    /\ \E product_id \in product_ids, s \in Statuses :
         /\ cart_items' = cart_add(cart_items, product_id, s)
         /\ last_task' = [task |-> "add_to_cart",
                          requests |-> <<request("Add to Cart", s)>>]
    /\ n_ops' = n_ops + 1
    /\ UNCHANGED last
    /\ UNCHANGED <<user_service_vars, database_vars, registration_vars>>
    /\ UNCHANGED <<runner_vars, verify_vars, pair_vars>>

\* the first step of the checkout whose response is not 200; 6 when all are
first_failure(responses) ==
    IF \A k \in 1..5 : responses[k] = 200 THEN 6
    ELSE CHOOSE k \in 1..5 :
           /\ responses[k] # 200
           /\ \A j \in 1..(k - 1) : responses[j] = 200

\* checkout_process that resets the cart when a step has failed too
checkout_resetting_on_failure(cart, responses) ==
    IF cart = <<>> THEN [cart |-> cart, requests |-> <<>>]
    ELSE LET issued == IF first_failure(responses) = 6 THEN 5
                       ELSE first_failure(responses) IN
           [cart |-> <<>>,
            requests |-> [k \in 1..issued |-> request(checkout_steps[k], responses[k])]]

\* checkout_process, given the responses the five steps would receive: the
\* cart it leaves and the requests it issued
checkout(cart, responses) ==
    IF cart = <<>> THEN [cart |-> cart, requests |-> <<>>]
    ELSE LET issued == IF first_failure(responses) = 6 THEN 5
                       ELSE first_failure(responses) IN
           [cart |-> IF first_failure(responses) = 6 THEN <<>> ELSE cart,
            requests |-> [k \in 1..issued |-> request(checkout_steps[k], responses[k])]]

checkout_process ==
    /\ running /\ n_ops < MaxOps
    /\ \E responses \in [1..5 -> Statuses] :
         LET r == checkout(cart_items, responses) IN
           /\ cart_items' = r.cart
           /\ last_task' = [task |-> "checkout_process", requests |-> r.requests]
    /\ n_ops' = n_ops + 1
    /\ UNCHANGED last
    /\ UNCHANGED <<user_service_vars, database_vars, registration_vars>>
    /\ UNCHANGED <<runner_vars, verify_vars, pair_vars>>

on_stop ==
    /\ running
    /\ \E s \in Statuses :
         last_task' = [task |-> "on_stop", requests |-> <<request("/logout", s)>>]
    /\ UNCHANGED <<n_ops, last, cart_items>>
    /\ UNCHANGED <<user_service_vars, database_vars, registration_vars>>
    /\ UNCHANGED <<runner_vars, verify_vars, pair_vars>>

LocustInit == RunnerIdle /\ VerifyIdle /\ PairIdle /\ ServiceIdle

LocustNext ==
    \/ on_start
    \/ browse_products
    \/ product_search
    \/ add_to_cart
    \/ checkout_process
    \/ on_stop

LocustSpec == LocustInit /\ [][LocustNext]_vars

(***************************************************************************)
(* Properties of the Test Runner (checked under Spec).                     *)
(***************************************************************************)
\* main has left its try block
AfterRun == pc \in {"after_run", "summary_done", "exited"}

\* some command could not be launched
LaunchFailed == \E i \in 1..Len(runs) : runs[i].kind = "launchfail"

\* Ctrl-C arrived while some command was running
Interrupted == \E i \in 1..Len(runs) : runs[i].kind = "interrupt"

\* the five categories that run one command
SingleCategories == {"api", "database", "unit", "integration", "all"}

\* C1: once a run was started and ended by the child exiting (0 or not) or by
\* a command that could not be launched, generate_summary has been called by
\* the time the process has terminated.
C1_SummaryNeverSkipped ==
    (pc = "exited" /\ runs # <<>>
       /\ \A i \in 1..Len(runs) : runs[i].kind \in {"exit", "launchfail"})
      => summary_calls >= 1

\* C3: in the security category the dependency check (safety) has been run
\* after the static analysis (bandit) whenever bandit failed, by a non-zero
\* exit or by being impossible to launch.
C3_SecondScanAlwaysRuns ==
    (AfterRun /\ selected = "security" /\ runs # <<>>
       /\ (runs[1].kind = "launchfail" \/ (runs[1].kind = "exit" /\ runs[1].code # 0)))
      => (Len(runs) = 2 /\ runs[1].cmd = "bandit" /\ runs[2].cmd = "safety")

\* C4: when the two scans exit with codes e1 and e2, the second scan was run
\* whatever e1 is, run_security_scan returns True exactly when e1 = 0 and
\* e2 = 0, and the process exits 0 in that case and 1 otherwise.
C4_SecurityIsAnd ==
    (AfterRun /\ selected = "security" /\ runs # <<>> /\ runs[1].kind = "exit")
      => /\ Len(runs) = 2
         /\ runs[2].kind = "exit" =>
              LET both == runs[1].code = 0 /\ runs[2].code = 0 IN
                /\ success = (IF both THEN "True" ELSE "False")
                /\ pc = "exited" => exit_code = (IF both THEN 0 ELSE 1)

\* C4 witness: the first scan failed, the second succeeded, the run exited 1
C4_Witness ==
    /\ pc = "exited" /\ selected = "security" /\ Len(runs) = 2
    /\ runs[1].kind = "exit" /\ runs[1].code # 0
    /\ runs[2].kind = "exit" /\ runs[2].code = 0
    /\ exit_code = 1

\* C5 as claimed: a run with a launch failure never ends with the exit
\* status of a run whose child exited non-zero.
C5_LaunchFailureDistinctStatus ==
    (pc = "exited" /\ LaunchFailed) => exit_code # exit_status("False")

\* C5 as amended: a launch failure leaves run_command as an exception, not
\* as a False return value, and reaches the top level unhandled (traceback),
\* while a child that exited non-zero gives False and no traceback; the
\* process exit status is 1 in both cases.
C5_LaunchFailureSurfaced ==
    /\ (pc = "exited" /\ LaunchFailed)
         => /\ success = "unbound" /\ raised = "FileNotFoundError"
            /\ traceback /\ exit_code = 1
    /\ (pc = "exited" /\ runs # <<>>
          /\ (\A i \in 1..Len(runs) : runs[i].kind = "exit")
          /\ (\E i \in 1..Len(runs) : runs[i].code # 0))
         => /\ success = "False" /\ raised = "none"
            /\ ~traceback /\ exit_code = 1

\* C5 witness: a run ended by a launch failure
C5_Witness == pc = "exited" /\ LaunchFailed /\ traceback

\* C6: in a single-command category run_command returns True exactly when
\* the child's exit code is 0, raises nothing on a non-zero exit, and the
\* process exits 0 on success and 1 on failure.
C6_SingleCommandStatus ==
    (AfterRun /\ selected \in SingleCategories /\ runs # <<>> /\ runs[1].kind = "exit")
      => /\ Len(runs) = 1 /\ runs[1].cmd = selected
         /\ success = (IF runs[1].code = 0 THEN "True" ELSE "False")
         /\ raised = "none" /\ ~traceback
         /\ pc = "exited" => exit_code = (IF runs[1].code = 0 THEN 0 ELSE 1)

\* C6 witness: a single command whose child exited non-zero, process status 1
C6_Witness ==
    /\ pc = "exited" /\ selected \in SingleCategories
    /\ Len(runs) = 1 /\ runs[1].kind = "exit" /\ runs[1].code # 0
    /\ exit_code = 1

\* C7: a run in which Ctrl-C arrived during a subprocess ends with status
\* 130 and without an unhandled exception.
C7_InterruptExits130 ==
    (pc = "exited" /\ Interrupted) => (exit_code = 130 /\ ~traceback)

\* C7 witness: Ctrl-C during the second security scan
C7_Witness ==
    /\ pc = "exited" /\ selected = "security" /\ Len(runs) = 2
    /\ runs[2].kind = "interrupt" /\ exit_code = 130

\* C9: a command line with no category flag or with two or more is rejected
\* by parse_args: the process has ended with argparse's status 2, the runner
\* (and with it the reports directory) was never constructed and no
\* subprocess was launched.
C9_RejectedBeforeAnyEffect ==
    (pc # "parse_args" /\ Cardinality(argv) # 1)
      => /\ pc = "exited" /\ exit_code = 2
         /\ runner = "none" /\ runs = <<>> /\ summary_calls = 0

\* C9 witness: two flags were given and the process has ended
C9_Witness == pc = "exited" /\ Cardinality(argv) = 2 /\ exit_code = 2

\* C10: after --unit with a child that exited 0 and wrote unit-tests.html
\* and coverage/index.html, the process exits 0, the summary marks
\* unit-tests.html present and prints the path of that coverage report.
C10_UnitSummaryShowsCoverage ==
    (pc = "exited" /\ selected = "unit" /\ Len(runs) = 1
       /\ runs[1].kind = "exit" /\ runs[1].code = 0
       /\ runs[1].wrote = ReportTargets("unit"))
      => /\ exit_code = 0
         /\ summary[3] = <<"unit-tests.html", TRUE>>
         /\ coverage_line = "coverage/index.html"

\* C11: every summary lists exactly the five reports api-tests.html,
\* database-tests.html, unit-tests.html, integration-tests.html and
\* all-backend-tests.html in this order, each marked present exactly when the
\* file exists under reports/, whichever category ran and however it ended.
C11_SummaryListsFiveReports ==
    summary_calls >= 1
      => /\ Len(summary) = 5
         /\ summary[1] = <<"api-tests.html", "api-tests.html" \in files>>
         /\ summary[2] = <<"database-tests.html", "database-tests.html" \in files>>
         /\ summary[3] = <<"unit-tests.html", "unit-tests.html" \in files>>
         /\ summary[4] = <<"integration-tests.html", "integration-tests.html" \in files>>
         /\ summary[5] = <<"all-backend-tests.html", "all-backend-tests.html" \in files>>

\* C11 witness: the api run failed and wrote nothing, and the report an
\* earlier database run left behind is marked present
C11_Witness ==
    /\ pc = "exited" /\ selected = "api" /\ success = "False"
    /\ summary_calls = 1
    /\ summary[1] = <<"api-tests.html", FALSE>>
    /\ summary[2] = <<"database-tests.html", TRUE>>

\* C12: run_command has printed a timing line for every invocation that was
\* not interrupted: exit 0, exit non-zero, and a command that failed to start.
C12_DurationAlwaysReported ==
    (AfterRun /\ ~Interrupted) => Len(printed) = Len(runs)

(***************************************************************************)
(* Properties of the Verification Sequence (checked under VerifySpec).     *)
(***************************************************************************)
\* C2: once check_database_functionality has returned, the temporary
\* database file it created does not exist.
C2_TempFileRemoved == (vpc # "import" /\ step > 4) => ~db_file

\* C8: a run in which Ctrl-C arrived during a subprocess-based check ends
\* without an exception propagating out of main.
C8_InterruptEndsCleanly ==
    (vpc = "exited" /\ \E i \in 1..Len(checks_run) : checks_run[i].kind = "interrupt")
      => v_traceback = "none"

\* Ctrl-C ended the run
VerifyInterrupted == v_traceback = "KeyboardInterrupt"

\* the checks in the order of the specification
CheckOrder == <<"Python Version", "Required Packages", "Internet Connectivity",
                "Database Functionality", "Test Files", "Python Syntax",
                "Pytest Collection", "Sample Test">>

\* while main's loop runs, the checks called so far are the first ones of the
\* list, each once, and each one that returned or raised an Exception has
\* exactly one result; one that raised has the result "failed"
MainLoopInOrder ==
    /\ Len(executed) <= 8
    /\ executed = SubSeq(CheckOrder, 1, Len(executed))
    /\ ~VerifyInterrupted =>
         /\ Len(outcomes) = Len(executed)
         /\ step = Len(executed) + 1
         /\ \A i \in 1..Len(outcomes) :
              /\ outcomes[i] \in {"passed", "failed"}
              /\ (\E j \in 1..Len(unexpected) : unexpected[j] = CheckOrder[i])
                   => outcomes[i] = "failed"

\* C13: the eight checks run in the fixed order, each exactly once with
\* exactly one result (an exception counts as failed), and a process that
\* ended without Ctrl-C has run all eight.
C13_EightChecksInOrder ==
    /\ MainLoopInOrder
    /\ (vpc = "exited" /\ ~VerifyInterrupted) => Len(executed) = 8

\* the environment has no defect but one module that cannot be imported
OnlyOnePackageMissing ==
    /\ Cardinality(Modules \ installed) = 1
    /\ broken = {}
    /\ version_ok(version)
    /\ script_files = TestFileSet /\ cwd = "script_dir"
    /\ bad_syntax = {} /\ unreadable = {}

\* the collaborators behaved as well as the environment allows: the network
\* and sqlite worked, and each child process ran to its end and exited 0
\* when it could
CollaboratorsHealthy ==
    /\ Len(outcomes) >= 3 => outcomes[3] = "passed"
    /\ Len(outcomes) >= 4 => outcomes[4] = "passed"
    /\ \A i \in 1..Len(checks_run) :
         /\ checks_run[i].kind = "exit"
         /\ (IF checks_run[i].cmd = "collect" THEN collect_can_pass ELSE sample_can_pass)
              => checks_run[i].code = 0

\* C15: when exactly one probed package is missing and all else is healthy,
\* all eight checks are executed, only the dependency check fails and the
\* summary counts 7 of 8.
C15_OneMissingPackageGivesSevenOfEight ==
    (vpc = "exited" /\ OnlyOnePackageMissing /\ CollaboratorsHealthy)
      => /\ Len(executed) = 8
         /\ outcomes = <<"passed", "failed", "passed", "passed",
                         "passed", "passed", "passed", "passed">>
         /\ passed_checks = 7

RECURSIVE count_passed(_)
count_passed(s) ==
    IF s = <<>> THEN 0
    ELSE (IF Head(s) = "passed" THEN 1 ELSE 0) + count_passed(Tail(s))

\* C16: a run that is not interrupted executes all eight checks, counts
\* the passed ones (between 0 and 8) and exits 0 exactly when all eight
\* passed, 1 otherwise.
C16_AllEightThenExitStatus ==
    (vpc = "exited" /\ ~VerifyInterrupted)
      => /\ Len(outcomes) = 8
         /\ passed_checks = count_passed(outcomes)
         /\ passed_checks \in 0..8
         /\ v_exit = (IF passed_checks = 8 THEN 0 ELSE 1)

\* the position in the sequence of the check that ran child process i
subprocess_step(i) == IF checks_run[i].cmd = "collect" THEN 7 ELSE 8

\* C17: a timeout of the child process of check 7 or 8 makes that check
\* failed, is not an exception leaving the check, and the sequence goes on
\* to the next step and, unless interrupted later, to the summary and a
\* regular exit with status 1.
C17_TimeoutIsFailure ==
    \A i \in 1..Len(checks_run) :
      checks_run[i].kind = "timeout" =>
        LET k == subprocess_step(i) IN
          /\ Len(outcomes) >= k /\ outcomes[k] = "failed"
          /\ \A j \in 1..Len(unexpected) : unexpected[j] # checks[k]
          /\ step > k
          /\ v_traceback \in {"none", "KeyboardInterrupt"}
          /\ (vpc = "exited" /\ ~VerifyInterrupted)
               => v_success = "False" /\ v_exit = 1

C17_Witness ==
    /\ vpc = "exited" /\ v_exit = 1 /\ v_traceback = "none"
    /\ Len(checks_run) = 2
    /\ checks_run[1].kind = "timeout"
    /\ checks_run[2].kind = "timeout"
    /\ outcomes[7] = "failed" /\ outcomes[8] = "failed"

\* C18: when no statement of the smoke test raised, the check passed
\* exactly when a row was read back and its second field is "Test User",
\* and the temporary file is gone whatever the comparison gave.
C18_SmokeTestComparesAndCleans ==
    (Len(outcomes) >= 4 /\ db_error = "none")
      => /\ outcomes[4] = "passed" <=> (db_row # <<>> /\ db_row[2] = "Test User")
         /\ ~db_file

C18_Witness ==
    /\ Len(outcomes) >= 4 /\ db_error = "none"
    /\ db_row # <<>> /\ db_row[2] # "Test User"
    /\ outcomes[4] = "failed"
    /\ ~db_file

\* C19: the version check passed exactly when (major, minor) is at least
\* (3, 9) in version order.
C19_VersionAtLeastMinimum ==
    Len(outcomes) >= 1
      => (outcomes[1] = "passed"
            <=> (version[1] > 3 \/ (version[1] = 3 /\ version[2] >= 9)))

\* C20: when the existence check passed, the syntax check reported no
\* file as 'File not found'.
C20_SyntaxCheckFindsExistingFiles ==
    (Len(outcomes) >= 6 /\ outcomes[5] = "passed") => not_found = {}

\* the outcome of check j in a run whose recorded outcomes are outs
outcome_of(outs, j) == IF j <= Len(outs) THEN outs[j] ELSE "not run"

\* C14: of two runs in environments that differ only in what makes one
\* check fail, each of the other seven checks has the same outcome in both.
C14_ChecksAreIndependent ==
    (ref.phase = 2 /\ vpc = "exited")
      => \A j \in (1..total_checks) \ {ref.fault.check} :
           outcome_of(outcomes, j) = outcome_of(ref.outcomes, j)

\* the packages of required_packages, from position i on, whose module
\* cannot be loaded
RECURSIVE cannot_load(_)
cannot_load(i) ==
    IF i > Len(required_packages) THEN <<>>
    ELSE (IF import_module(probe_name(required_packages[i])) = "none"
            THEN <<>> ELSE <<required_packages[i]>>) \o cannot_load(i + 1)

\* C21: the dependency check probes all eight packages in order, records
\* as missing exactly those whose load failed, lets no failure leave the
\* check, and passes exactly when nothing was recorded missing.
C21_EveryPackageProbed ==
    Len(outcomes) >= 2
      => /\ probed = required_packages
         /\ missing_packages = cannot_load(1)
         /\ \A j \in 1..Len(unexpected) : unexpected[j] # checks[2]
         /\ outcomes[2] = "passed" <=> missing_packages = <<>>

(***************************************************************************)
(* Further properties of the Test Runner (checked under Spec).             *)
(***************************************************************************)
\* the category whose run method issues command cmd
category_of(cmd) == IF cmd \in {"bandit", "safety"} THEN "security" ELSE cmd

\* the commands issued are those of one call of the selected run method
OnlySelectedCategory ==
    /\ \A i \in 1..Len(runs) : category_of(runs[i].cmd) = selected
    /\ Len(runs) <= (IF selected = "security" THEN 2 ELSE 1)
    /\ selected = "security" =>
         \A i \in 1..Len(runs) : runs[i].cmd = scan_commands[i]

\* C22 as claimed: every invocation that passed argument parsing has, by
\* the time it ends, called the run method of exactly one category, which
\* issued one command (one or two for security) and none of another
\* category.
C22_ExactlyOneCategoryRuns ==
    (pc = "exited" /\ group_accepts(argv))
      => (runs # <<>> /\ OnlySelectedCategory)

\* C22 as amended: at most one category is ever active, and exactly one
\* once the runner was constructed; the constructor can fail between
\* argument parsing and the dispatch, and then no run method is called.
C22_AtMostOneCategoryRuns ==
    /\ OnlySelectedCategory
    /\ runs # <<>> => (group_accepts(argv) /\ runner = "constructed")
    /\ (AfterRun /\ runner = "constructed") => runs # <<>>
    /\ (pc = "exited" /\ group_accepts(argv) /\ runner = "none")
         => (runs = <<>> /\ traceback)

\* C22 witness: a security run that issued both of its commands
C22_Witness ==
    /\ pc = "exited" /\ selected = "security"
    /\ Len(runs) = 2 /\ runs[1].cmd = "bandit" /\ runs[2].cmd = "safety"

\* C23: the step that generates the summary leaves every file under the
\* reports directory, the directory itself and the run's success value as
\* they were, raises nothing, and prints one line per report marked by its
\* existence (all five missing when no report exists).
C23_SummaryIsObservational ==
    [][(pc = "after_run" /\ pc' = "summary_done")
         => /\ files' = files /\ reports_dir' = reports_dir
            /\ success' = success
            /\ raised' = "none" /\ traceback' = traceback
            /\ summary' = [i \in 1..Len(reports) |-> <<reports[i], reports[i] \in files>>]
            /\ (files = {} => \A i \in 1..Len(reports) : summary'[i][2] = FALSE)]_vars

\* C23 witness: the summary was generated while no report file existed and
\* listed all five as missing
C23_Witness ==
    /\ pc = "summary_done" /\ summary_calls = 1 /\ files = {}
    /\ Len(summary) = 5
    /\ \A i \in 1..Len(summary) : summary[i][2] = FALSE

(***************************************************************************)
(* Properties of UserService (checked under UserServiceSpec).              *)
(***************************************************************************)
\* the step is a call of UserService.get_user
GetUserStep ==
    n_ops' = n_ops + 1 /\ last'.svc = "UserService" /\ last'.op = "get_user"

C29_OnlySuccessesCached ==
    [][/\ (GetUserStep /\ last'.status \notin {0, 200})
            => /\ last'.ret = "None" /\ last'.exc = "none"
               /\ cache' = cache
               /\ last'.arg \notin DOMAIN cache'
       /\ \A id \in DOMAIN cache' \ DOMAIN cache :
            GetUserStep /\ last'.status = 200 /\ last'.arg = id
       /\ (GetUserStep /\ last'.arg \notin DOMAIN cache) => last'.requests = 1
      ]_vars

\* C29 witness: two calls for the same id, both answered by requests, the
\* second with 404, and nothing cached
C29_Witness ==
    /\ n_ops = 2 /\ last.op = "get_user" /\ last.status = 404
    /\ Len(api_calls) = 2 /\ api_calls[1] = api_calls[2]
    /\ last.ret = "None" /\ cache = <<>>

(***************************************************************************)
(* Properties of the validation of user data (checked under                *)
(* ValidationSpec).                                                        *)
(***************************************************************************)
\* the field is absent, None or the empty string
missing_or_empty(x) == x \in {Missing, None, str("")}

\* the step is a call of UserService.create_user or of register_user
ValidatingStep ==
    /\ n_ops' = n_ops + 1
    /\ \/ last'.svc = "UserService" /\ last'.op = "create_user"
       \/ last'.op = "register_user"

\* C25: create_user and register_user called with a name or an email that
\* is missing or empty raise ValueError("Name and email are required") and
\* have made no HTTP request, saved no row and sent no welcome email.
C25_RejectedBeforeSideEffects ==
    [][(ValidatingStep
          /\ (missing_or_empty(last'.arg.name) \/ missing_or_empty(last'.arg.email)))
         => /\ last'.exc = "ValueError: Name and email are required"
            /\ last'.requests = 0 /\ api_calls' = api_calls
            /\ reg_users' = reg_users
            /\ sent' = sent]_vars

\* C25 witness: after one user was registered, a registration with an empty
\* email was rejected and left the one row and the one welcome email
C25_Witness ==
    /\ last.op = "register_user" /\ last.arg.email = str("")
    /\ last.exc = "ValueError: Name and email are required"
    /\ Len(reg_users) = 1 /\ Len(sent) = 1

(***************************************************************************)
(* Properties of the database and registration services (checked under     *)
(* DatabaseSpec).                                                          *)
(***************************************************************************)
CreateStep ==
    n_ops' = n_ops + 1 /\ last'.svc = "DatabaseService" /\ last'.op = "create_user"

RegisterStep == n_ops' = n_ops + 1 /\ last'.op = "register_user"

\* some row of the table holds this email
email_stored(rows, email) == \E i \in 1..Len(rows) : rows[i].email = email

emails_distinct(rows) ==
    \A i, j \in 1..Len(rows) : i # j => rows[i].email # rows[j].email

\* every row of rows is in rows2, as it was, and get_user returns it
rows_kept(rows, rows2) ==
    /\ Len(rows2) >= Len(rows)
    /\ \A i \in 1..Len(rows) :
         /\ rows2[i] = rows[i]
         /\ DatabaseService_get(rows2, rowid(i)) = <<row_dict(rows[i])>>

GetStep ==
    n_ops' = n_ops + 1 /\ last'.svc = "DatabaseService" /\ last'.op = "get_user"

\* the ids the successful creations have returned so far
returned_ids(rows) == {rowid(i) : i \in 1..Len(rows)}

C28_NotifiedOnlyAfterSave ==
    [][RegisterStep
         => /\ last'.exc # "none" => (sent' = sent /\ reg_users' = reg_users)
            /\ last'.exc = "none"
                 => /\ last'.ret # <<>>
                    /\ Len(reg_users') = Len(reg_users) + 1
                    /\ Len(sent') = Len(sent) + 1
                    /\ SubSeq(sent', 1, Len(sent)) = sent
                    /\ sent'[Len(sent')].email = last'.ret[1].email
                    /\ last'.ret[1] = row_dict(reg_users'[Len(reg_users')])]_vars

\* C28 witness: one registration returned a user and one notification was
\* sent, then a registration with the same email was rejected
C28_Witness ==
    /\ last.op = "register_user" /\ last.exc = "IntegrityError"
    /\ Len(reg_users) = 1 /\ Len(sent) = 1
    /\ sent[1].email = reg_users[1].email

(***************************************************************************)
(* Properties of the load-test user (checked under LocustSpec).            *)
(***************************************************************************)
CheckoutStep == n_ops' = n_ops + 1 /\ last_task'.task = "checkout_process"

all_ok(requests) == \A k \in 1..Len(requests) : requests[k].status = 200

\* the requests are the first steps of the checkout, in order
checkout_prefix(requests) ==
    /\ Len(requests) <= 5
    /\ \A k \in 1..Len(requests) : requests[k].name = checkout_steps[k]

\* C30: cart_items changes only by an add_to_cart whose response was 200,
\* which appends one product, or by a checkout_process whose five steps all
\* returned 200, which empties it; checkout_process with an empty cart
\* issues no request; a step that is not answered 200 is the last request
\* of the checkout and leaves cart_items unchanged.
C30_CartFollowsResponses ==
    [][/\ cart_items' # cart_items
            => \/ /\ last_task'.task = "add_to_cart"
                  /\ last_task'.requests = <<request("Add to Cart", 200)>>
                  /\ \E p \in product_ids : cart_items' = Append(cart_items, p)
               \/ /\ CheckoutStep
                  /\ Len(last_task'.requests) = 5 /\ all_ok(last_task'.requests)
                  /\ cart_items' = <<>>
       /\ (CheckoutStep /\ cart_items = <<>>) => last_task'.requests = <<>>
       /\ (CheckoutStep /\ cart_items # <<>>)
            => /\ last_task'.requests # <<>>
               /\ checkout_prefix(last_task'.requests)
               /\ all_ok(SubSeq(last_task'.requests, 1, Len(last_task'.requests) - 1))
               /\ Len(last_task'.requests) < 5 => ~all_ok(last_task'.requests)
               /\ ~all_ok(last_task'.requests) => cart_items' = cart_items
               /\ all_ok(last_task'.requests) => cart_items' = <<>>]_vars

\* C30 witness: with two products in the cart, the third step of a checkout
\* was not answered 200: three requests were issued and the cart is kept
C30_Witness ==
    /\ last_task.task = "checkout_process"
    /\ Len(last_task.requests) = 3 /\ last_task.requests[3].status # 200
    /\ Len(cart_items) = 2

====
